---- MODULE Spec2Model ----
(***************************************************************************)
(* A model of the web-agent repository: the CustomOpenAIClient of         *)
(* src/agent/custom_openai_client.py and the VisionScraper workflow of    *)
(* src/vision_scraper.py.                                                  *)
(*                                                                         *)
(* Python values are tagged records [t |-> type, v |-> payload]; a dict   *)
(* is a function whose DOMAIN is exactly the set of keys present.  A      *)
(* formatted string (an f-string, str(e)) is the sequence of its parts,   *)
(* in order, so "the message contains x" is "x is one of its parts".      *)
(***************************************************************************)
EXTENDS Integers, Sequences, FiniteSets, TLC

VARIABLES
    environ,      \* the value of OPENAI_API_KEY in the process environment
    requestsLib,  \* which requests/json build is installed
    client,       \* the CustomOpenAIClient the caller holds, or None
    ctor,         \* outcome of the most recent constructor call
    call,         \* the most recent call of chat.completions.create
    sent,         \* HTTP requests issued by the operation in progress / just ended
    scraper,      \* the VisionScraper the caller holds, or None
    wf,           \* the scrape_and_analyze invocation in progress / just ended
    file          \* what is stored at screenshot.jpg

vars == <<environ, requestsLib, client, ctor, call, sent, scraper, wf, file>>

----------------------------------------------------------------------------
(* Bounds of the model *)

\* longest run of trailing "/" on a base_url argument
MaxSlashes == 2

\* longest "choices" list in a response body
MaxChoices == 1

\* number of scrape_and_analyze invocations in one session
MaxInvocations == 3

----------------------------------------------------------------------------
(* Python values *)

None == [t |-> "None", v |-> ""]

Str(s) == [t |-> "str", v |-> s]

Num(n) == [t |-> "int", v |-> n]

Flt(s) == [t |-> "float", v |-> s]

List(q) == [t |-> "list", v |-> q]

Dict(f) == [t |-> "dict", v |-> f]

EmptyDict == Dict(<<>>)

Obj(cls, fields) == [t |-> cls, v |-> fields]

\* Python truthiness of an Optional[str]
Truthy(x) == x.t # "None" /\ ~(x.t = "str" /\ x.v = "")

\* d.get(k, default) on a dict
Get(d, k, default) == IF k \in DOMAIN d.v THEN d.v[k] ELSE default

\* the text an f-string or str() gives for a value
PyStr(x) ==
    CASE x.t = "str" -> x.v
      [] x.t = "None" -> "None"
      [] x.t = "int" -> ToString(x.v)
      [] x.t = "float" -> x.v
      [] OTHER -> ToString(x)

\* the text msg contains the text part (every text contains the empty text)
Contains(msg, part) == part = "" \/ \E i \in 1..Len(msg) : msg[i] = part

(* Outcome of evaluating an expression or a call: a value, or an exception *)
(* of class cls whose str() is msg.                                        *)
Return(value) == [tag |-> "return", cls |-> "", msg |-> <<>>, value |-> value]

Raise(cls, msg) == [tag |-> "raise", cls |-> cls, msg |-> msg, value |-> None]

----------------------------------------------------------------------------
(* The requests library, as far as the client uses it *)

\* builds that differ in the exception Response.json() raises
RequestsLibs == {"requests>=2.27", "requests<2.27", "requests<2.27+simplejson"}

NotJSON == [t |-> "invalid", v |-> ""]

\* a response body that is JSON: its text is the serialisation of the value
JsonBody(value) == [text |-> ToString(value), json |-> value]

\* a response body that is not JSON
TextBody(s) == [text |-> s, json |-> NotJSON]

NoBody == TextBody("")

Response(status, body) == [kind |-> "response", cls |-> "", text |-> "", status |-> status, body |-> body]

\* requests.post raised before any response arrived
NoResponse(cls, text) == [kind |-> "error", cls |-> cls, text |-> text, status |-> 0, body |-> NoBody]

Reason(status) ==
    CASE status = 200 -> "OK"
      [] status = 304 -> "Not Modified"
      [] status = 404 -> "Not Found"
      [] status = 503 -> "Service Unavailable"
      [] OTHER -> "Unknown"

\* Response.raise_for_status(): raises HTTPError for 4xx and 5xx only
RaiseForStatus(status, url) ==
    IF 400 <= status /\ status < 500
    THEN Raise("HTTPError", <<ToString(status), " Client Error: ", Reason(status), " for url: ">> \o url)
    ELSE IF 500 <= status /\ status < 600
    THEN Raise("HTTPError", <<ToString(status), " Server Error: ", Reason(status), " for url: ">> \o url)
    ELSE Return(None)

\* the class of the exception Response.json() raises on an undecodable body
DecodeErrorClass(lib) ==
    CASE lib = "requests>=2.27" -> "requests.exceptions.JSONDecodeError"
      [] lib = "requests<2.27" -> "json.JSONDecodeError"
      [] OTHER -> "simplejson.JSONDecodeError"

\* Response.json()
ResponseJson(body, lib) ==
    IF body.json.t = "invalid"
    THEN Raise(DecodeErrorClass(lib), <<"Expecting value: line 1 column 1 (char 0)">>)
    ELSE Return(body.json)

\* isinstance(e, requests.exceptions.RequestException)
IsRequestException(cls) ==
    cls \in {"HTTPError", "ConnectionError", "Timeout", "requests.exceptions.JSONDecodeError"}

\* isinstance(e, json.JSONDecodeError)
IsJSONDecodeError(cls) ==
    cls \in {"json.JSONDecodeError", "requests.exceptions.JSONDecodeError"}

----------------------------------------------------------------------------
(* Response objects: ChatCompletion, Choice, Message *)

AttributeError(typename) == Raise("AttributeError", <<"'", typename, "' object has no attribute 'get'">>)

\* a Message that subscripts its data instead of using get
MessageSubscript(message_data) ==
    IF message_data.t # "dict" THEN AttributeError(message_data.t)
    ELSE IF "content" \notin DOMAIN message_data.v THEN Raise("KeyError", <<"'content'">>)
    ELSE IF "role" \notin DOMAIN message_data.v THEN Raise("KeyError", <<"'role'">>)
    ELSE Return(Obj("Message", [content |-> message_data.v["content"],
                                role |-> message_data.v["role"]]))

\* Message.__init__
Message(message_data) ==
    IF message_data.t # "dict" THEN AttributeError(message_data.t)
    ELSE Return(Obj("Message", [content |-> Get(message_data, "content", None),
                                role |-> Get(message_data, "role", None)]))

\* Choice.__init__
Choice(choice_data) ==
    IF choice_data.t # "dict" THEN AttributeError(choice_data.t)
    ELSE LET m == Message(Get(choice_data, "message", EmptyDict))
         IN IF m.tag = "raise" THEN m
            ELSE Return(Obj("Choice", [message |-> m.value,
                                       index |-> Get(choice_data, "index", None),
                                       finish_reason |-> Get(choice_data, "finish_reason", None)]))

\* ChatCompletion.__init__
ChatCompletion(response_data) ==
    IF response_data.t # "dict" THEN AttributeError(response_data.t)
    ELSE LET raw == Get(response_data, "choices", List(<<>>))
         IN IF raw.t # "list"
            THEN Raise("TypeError", <<"'", raw.t, "' object is not iterable">>)
            ELSE LET built == [i \in 1..Len(raw.v) |-> Choice(raw.v[i])]
                     bad == {i \in 1..Len(raw.v) : built[i].tag = "raise"}
                 IN IF bad # {}
                    THEN built[CHOOSE i \in bad : \A j \in bad : i <= j]
                    ELSE Return(Obj("ChatCompletion",
                                    [choices |-> [i \in 1..Len(raw.v) |-> built[i].value],
                                     id |-> Get(response_data, "id", None),
                                     object |-> Get(response_data, "object", None),
                                     created |-> Get(response_data, "created", None),
                                     model |-> Get(response_data, "model", None),
                                     usage |-> Get(response_data, "usage", None)]))

----------------------------------------------------------------------------
(* CustomOpenAIClient *)

DefaultBaseUrl == <<"https://api.omnia.reainternal.net">>

DefaultMaxTokens == 1000

DefaultTemperature == Flt("0.1")

TransportTimeout == 60

\* the parameters create and _make_chat_request name in their signatures
NamedParams == {"model", "messages", "max_tokens", "temperature"}

\* str.rstrip("/") on a string given as the sequence of its parts
RECURSIVE rstrip(_)
rstrip(s) ==
    IF s # <<>> /\ s[Len(s)] = "/" THEN rstrip(SubSeq(s, 1, Len(s) - 1)) ELSE s

\* os.getenv("OPENAI_API_KEY")
getenv(env) == env

\* CustomOpenAIClient.__init__ without the credential check
CustomOpenAIClientUnchecked(api_key, base_url, env) ==
    LET key == IF Truthy(api_key) THEN api_key ELSE getenv(env)
    IN Return(Obj("CustomOpenAIClient", [api_key |-> key, base_url |-> rstrip(base_url)]))

\* CustomOpenAIClient.__init__
CustomOpenAIClient(api_key, base_url, env) ==
    LET key == IF Truthy(api_key) THEN api_key ELSE getenv(env)
    IN IF ~Truthy(key)
       THEN Raise("ValueError", <<"API key is required. Set OPENAI_API_KEY environment variable or pass api_key parameter.">>)
       ELSE Return(Obj("CustomOpenAIClient", [api_key |-> key, base_url |-> rstrip(base_url)]))

\* CustomOpenAIClient._get_headers
get_headers(self) ==
    [Authorization |-> <<"Bearer ", PyStr(self.v.api_key)>>,
     ContentType |-> "application/json",
     UserAgent |-> "CustomOpenAIClient/1.0"]

\* the fallback text of the inner bare except
HttpStatusText(response) == <<"HTTP ", ToString(response.status), ": ", response.body.text>>

\* a handler that always reports the exception's own text
ErrorMessageOwnText(e, response, lib) == e.msg

\* a handler that never reads the error body
ErrorMessageStatusOnly(e, response, lib) ==
    IF e.cls = "HTTPError" THEN HttpStatusText(response) ELSE e.msg

\* error_message of the RequestException handler
ErrorMessage(e, response, lib) ==
    IF e.cls = "HTTPError"
    THEN LET error_data == ResponseJson(response.body, lib)
         IN IF error_data.tag = "raise" \/ error_data.value.t # "dict"
            THEN HttpStatusText(response)
            ELSE LET err == Get(error_data.value, "error", EmptyDict)
                 IN IF err.t # "dict" THEN HttpStatusText(response)
                    ELSE IF "message" \in DOMAIN err.v
                    THEN <<PyStr(err.v["message"])>>
                    ELSE e.msg
    ELSE e.msg

\* the body of the try block: post, raise_for_status, json, ChatCompletion
TryExchange(url, outcome, lib) ==
    IF outcome.kind = "error" THEN Raise(outcome.cls, <<outcome.text>>)
    ELSE LET checked == RaiseForStatus(outcome.status, url)
         IN IF checked.tag = "raise" THEN checked
            ELSE LET response_data == ResponseJson(outcome.body, lib)
                 IN IF response_data.tag = "raise" THEN response_data
                    ELSE ChatCompletion(response_data.value)

\* the except clauses, tried in source order
HandleExchange(r, outcome, lib) ==
    IF r.tag = "return" THEN r
    ELSE IF IsRequestException(r.cls)
    THEN Raise("Exception", <<"API request failed: ">> \o ErrorMessage(r, outcome, lib))
    ELSE IF IsJSONDecodeError(r.cls)
    THEN Raise("Exception", <<"Failed to parse API response: ">> \o r.msg)
    ELSE Raise("Exception", <<"Unexpected error: ">> \o r.msg)

\* the request _make_chat_request builds
BuildRequest(self, model, messages, max_tokens, temperature, kwargs) ==
    [method |-> "POST",
     url |-> self.v.base_url \o <<"/v1/chat/completions">>,
     headers |-> get_headers(self),
     json |-> Dict(kwargs @@ [k \in NamedParams |->
                 CASE k = "model" -> model
                   [] k = "messages" -> messages
                   [] k = "max_tokens" -> max_tokens
                   [] OTHER -> temperature]),
     timeout |-> TransportTimeout,
     by |-> self]

\* a client that posts again when the exchange fails
make_chat_request_retry(self, model, messages, max_tokens, temperature, kwargs, outcome, lib) ==
    LET request == BuildRequest(self, model, messages, max_tokens, temperature, kwargs)
        r == TryExchange(request.url, outcome, lib)
    IN [posts |-> IF r.tag = "raise" THEN <<request, request>> ELSE <<request>>,
        result |-> HandleExchange(r, outcome, lib)]

\* CustomOpenAIClient._make_chat_request: the requests it issues and its outcome
make_chat_request(self, model, messages, max_tokens, temperature, kwargs, outcome, lib) ==
    LET request == BuildRequest(self, model, messages, max_tokens, temperature, kwargs)
    IN [posts |-> <<request>>,
        result |-> HandleExchange(TryExchange(request.url, outcome, lib), outcome, lib)]

\* the parameters of create after binding
Bound(all) ==
    Return([model |-> all["model"],
            messages |-> all["messages"],
            max_tokens |-> IF "max_tokens" \in DOMAIN all THEN all["max_tokens"] ELSE Num(DefaultMaxTokens),
            temperature |-> IF "temperature" \in DOMAIN all THEN all["temperature"] ELSE DefaultTemperature,
            kwargs |-> [k \in DOMAIN all \ NamedParams |-> all[k]]])

\* a binding in which a **mapping silently replaces an explicit argument
BindCreateLastWins(named, extra) ==
    LET b == Bound(named @@ extra).value
    IN Return([b EXCEPT !.kwargs = extra @@ b.kwargs])

\* Python's binding of create(<named arguments>, **extra) to the signature
\* (model, messages, max_tokens=1000, temperature=0.1, **kwargs)
BindCreate(named, extra) ==
    LET twice == DOMAIN named \cap DOMAIN extra
    IN IF twice # {}
       THEN Raise("TypeError", <<"create() got multiple values for keyword argument '",
                                 CHOOSE k \in twice : TRUE, "'">>)
       ELSE Bound(named @@ extra)

\* ChatCompletions.create, called as create(<named>, **extra)
create(self, named, extra, outcome, lib) ==
    LET b == BindCreate(named, extra)
    IN IF b.tag = "raise" THEN [posts |-> <<>>, result |-> b]
       ELSE make_chat_request(self, b.value.model, b.value.messages, b.value.max_tokens,
                              b.value.temperature, b.value.kwargs, outcome, lib)

----------------------------------------------------------------------------
(* Inputs of the client operations *)

EnvironValues == {None, Str(""), Str("sk-env")}

ApiKeyArgs == {None, Str(""), Str("sk-arg")}

RECURSIVE Slashes(_)
Slashes(n) == IF n = 0 THEN <<>> ELSE <<"/">> \o Slashes(n - 1)

BaseUrlArgs == {DefaultBaseUrl} \cup {<<"https://llm.example">> \o Slashes(n) : n \in 0..MaxSlashes}

UserMessages == List(<<Dict(("role" :> Str("user")) @@ ("content" :> Str("hello")))>>)

\* the arguments a caller names explicitly
NamedArgs ==
    LET required == ("model" :> Str("gpt-4o")) @@ ("messages" :> UserMessages)
    IN {required,
        required @@ ("max_tokens" :> Num(50)),
        required @@ ("max_tokens" :> Num(50)) @@ ("temperature" :> Flt("0.7"))}

ExtraValue(k) ==
    CASE k = "model" -> Str("other-model")
      [] k = "messages" -> List(<<>>)
      [] k = "max_tokens" -> Num(77)
      [] k = "temperature" -> Flt("1.5")
      [] k = "top_p" -> Flt("0.9")
      [] OTHER -> Str("alice")

\* the mappings a caller passes as **extra
ExtraArgs == {[k \in S |-> ExtraValue(k)] : S \in SUBSET (NamedParams \cup {"top_p", "user"})}

Statuses == {200, 304, 404, 503}

FieldValue(k) ==
    CASE k = "id" -> Str("chatcmpl-1")
      [] k = "object" -> Str("chat.completion")
      [] k = "created" -> Num(1700000000)
      [] k = "model" -> Str("gpt-4o")
      [] k = "usage" -> Dict("total_tokens" :> Num(9))
      [] k = "index" -> Num(0)
      [] k = "finish_reason" -> Str("stop")
      [] k = "role" -> Str("assistant")
      [] OTHER -> Str("a page with a heading")

TopFields == {"id", "object", "created", "model", "usage"}

ChoiceFields == {"index", "finish_reason"}

MessageFields == {"role", "content"}

MessageObjs == {Dict([k \in S |-> FieldValue(k)]) : S \in SUBSET MessageFields}

ChoiceObjs ==
    {Dict([k \in S |-> FieldValue(k)]) : S \in SUBSET ChoiceFields}
    \cup {Dict([k \in S \cup {"message"} |-> IF k = "message" THEN m ELSE FieldValue(k)]) :
            S \in SUBSET ChoiceFields, m \in MessageObjs}

ChoiceLists == UNION {[1..n -> ChoiceObjs] : n \in 0..MaxChoices}

\* a choices list in which nothing is absent
FullChoices ==
    <<Dict([j \in ChoiceFields \cup {"message"} |->
        IF j = "message" THEN Dict([f \in MessageFields |-> FieldValue(f)]) ELSE FieldValue(j)])>>

CompletionBody(S, withChoices, c) ==
    JsonBody(Dict([k \in S \cup (IF withChoices THEN {"choices"} ELSE {}) |->
        IF k = "choices" THEN List(c) ELSE FieldValue(k)]))

\* JSON objects of the documented response shape with fields absent: every
\* subset of the top-level fields (choices absent, empty or full), and every
\* list of choices with fields absent (all or none of the top-level fields)
CompletionBodies ==
    {CompletionBody(S, FALSE, <<>>) : S \in SUBSET TopFields}
    \cup {CompletionBody(S, TRUE, c) : S \in SUBSET TopFields, c \in {<<>>, FullChoices}}
    \cup {CompletionBody(S, TRUE, c) : S \in {{}, TopFields}, c \in ChoiceLists}

FullCompletion == CompletionBody(TopFields, TRUE, FullChoices)

\* bodies that exercise every branch of the error handlers
CoreBodies ==
    {TextBody("<html>Bad Gateway</html>"),
     TextBody(""),
     JsonBody(Dict("error" :> Dict("message" :> Str("rate limited")))),
     JsonBody(Dict("error" :> Dict(("message" :> Str("model overloaded")) @@ ("code" :> Num(7))))),
     JsonBody(Dict("error" :> Dict("message" :> None))),
     JsonBody(Dict("error" :> Dict("code" :> Num(7)))),
     JsonBody(Dict("error" :> EmptyDict)),
     JsonBody(Dict("error" :> Str("boom"))),
     JsonBody(Dict("error" :> None)),
     JsonBody(Dict("detail" :> Str("quota exceeded"))),
     JsonBody(EmptyDict),
     JsonBody(List(<<>>)),
     JsonBody(Str("oops")),
     JsonBody(Dict("choices" :> None)),
     JsonBody(Dict("choices" :> List(<<Dict("message" :> None)>>))),
     FullCompletion}

NoResponses ==
    {NoResponse("ConnectionError", "Connection refused"),
     NoResponse("Timeout", "Read timed out. (read timeout=60)")}

CoreOutcomes == NoResponses \cup {Response(st, b) : st \in Statuses, b \in CoreBodies}

Outcomes == CoreOutcomes \cup {Response(200, b) : b \in CompletionBodies}

FullNamedArgs ==
    ("model" :> Str("gpt-4o")) @@ ("messages" :> UserMessages)
      @@ ("max_tokens" :> Num(50)) @@ ("temperature" :> Flt("0.7"))

\* every way of calling create with a representative outcome, and a plain
\* call with every outcome
CallInputs ==
    {<<n, x, o>> : n \in NamedArgs, x \in ExtraArgs, o \in {Response(200, FullCompletion)}}
    \cup {<<n, x, o>> : n \in {FullNamedArgs}, x \in {<<>>}, o \in Outcomes}

----------------------------------------------------------------------------
(* State machine of the client *)

\* nothing is stored at screenshot.jpg; a stored image is the number of the
\* invocation whose screenshot process wrote it
NoFile == 0

NoCtor == [called |-> FALSE, api_key |-> None, base_url |-> <<>>, result |-> Return(None)]

NoCall == [status |-> "none", named |-> <<>>, extra |-> <<>>, outcome |-> NoResponse("", ""),
           result |-> Return(None)]

NoWorkflow == [pc |-> "idle", n |-> 0, url |-> "", prompt |-> "", found |-> NoFile,
               shot |-> "none", image |-> NoFile, api |-> NoResponse("", ""),
               result |-> Return(None)]

Init ==
    /\ environ \in EnvironValues
    /\ requestsLib \in RequestsLibs
    /\ client = None
    /\ ctor = NoCtor
    /\ call = NoCall
    /\ sent = <<>>
    /\ scraper = None
    /\ wf = NoWorkflow
    /\ file = NoFile

\* client = CustomOpenAIClient(api_key, base_url)
Construct(api_key, base_url) ==
    /\ LET r == CustomOpenAIClient(api_key, base_url, environ)
       IN /\ ctor' = [called |-> TRUE, api_key |-> api_key, base_url |-> base_url, result |-> r]
          /\ client' = IF r.tag = "return" THEN r.value ELSE client
    /\ call' = NoCall
    /\ sent' = <<>>
    /\ UNCHANGED <<environ, requestsLib, scraper, wf, file>>

\* client.chat.completions.create(<named>, **extra); the exchange ends as outcome
CallCreate(named, extra, outcome) ==
    /\ client.t # "None"
    /\ call.status = "none"
    /\ LET r == create(client, named, extra, outcome, requestsLib)
       IN /\ call' = [status |-> IF BindCreate(named, extra).tag = "raise" THEN "rejected"
                                 ELSE IF r.result.tag = "return" THEN "returned" ELSE "raised",
                      named |-> named, extra |-> extra, outcome |-> outcome,
                      result |-> r.result]
          /\ sent' = r.posts
    /\ ctor' = NoCtor
    /\ UNCHANGED <<environ, requestsLib, client, scraper, wf, file>>

Next ==
    \/ \E k \in ApiKeyArgs, b \in BaseUrlArgs : Construct(k, b)
    \/ \E i \in CallInputs : CallCreate(i[1], i[2], i[3])

Spec == Init /\ [][Next]_vars

----------------------------------------------------------------------------
(* Properties of the client *)

\* a call of create has ended (its arguments bound or not)
CallEnded == call.status # "none"

\* the call of create ended with a response of this status class
Is2xx(status) == 200 <= status /\ status < 300

Is4xx5xx(status) == 400 <= status /\ status < 600

Answered == CallEnded /\ call.status # "rejected" /\ call.outcome.kind = "response"

\* the body is a JSON object with an error.message field
HasErrorMessage(body) ==
    /\ body.json.t = "dict"
    /\ "error" \in DOMAIN body.json.v
    /\ body.json.v["error"].t = "dict"
    /\ "message" \in DOMAIN body.json.v["error"].v

\* the body is a JSON object whose error is absent, or an object without message
ErrorMessageMissing(body) ==
    /\ body.json.t = "dict"
    /\ \/ "error" \notin DOMAIN body.json.v
       \/ /\ body.json.v["error"].t = "dict"
          /\ "message" \notin DOMAIN body.json.v["error"].v

\* C1: constructing a client with no credential (argument None or empty and
\* OPENAI_API_KEY unset or empty) fails with ValueError and issues no request;
\* every client that exists holds a non-empty api_key, and every request
\* issued was issued by a client with a non-empty api_key.
C1_NoRequestWithoutCredential ==
    /\ (ctor.called /\ ~Truthy(ctor.api_key) /\ ~Truthy(environ))
          => (ctor.result.tag = "raise" /\ ctor.result.cls = "ValueError" /\ sent = <<>>)
    /\ client.t # "None" => Truthy(client.v.api_key)
    /\ \A i \in 1..Len(sent) :
          /\ Truthy(sent[i].by.v.api_key)
          /\ sent[i].headers.Authorization = <<"Bearer ", sent[i].by.v.api_key.v>>

C1_Witness ==
    /\ ctor.called /\ ~Truthy(ctor.api_key) /\ ~Truthy(environ)
    /\ ctor.result.cls = "ValueError"

\* C2 as stated: whenever the **extra mapping has a key that is a named
\* field, the request is sent and every extra value is in the JSON body.
C2_ExtraOverridesNamed ==
    (CallEnded /\ DOMAIN call.extra \cap NamedParams # {})
        => /\ Len(sent) = 1
           /\ \A k \in DOMAIN call.extra : sent[1].json.v[k] = call.extra[k]

\* C2 amended: a key of **extra that is also passed explicitly makes the call
\* fail with TypeError before any request; otherwise one request is sent whose
\* body holds every explicit argument and every extra parameter unchanged
\* (an extra max_tokens or temperature takes the place of the default), and
\* the defaults for what neither gives.
C2_CollisionRejectedElseMerged ==
    CallEnded =>
        LET twice == DOMAIN call.named \cap DOMAIN call.extra
            given == DOMAIN call.named \cup DOMAIN call.extra
        IN /\ twice # {} =>
                (call.status = "rejected" /\ call.result.cls = "TypeError" /\ sent = <<>>)
           /\ twice = {} =>
                /\ Len(sent) = 1
                /\ DOMAIN sent[1].json.v = NamedParams \cup given
                /\ \A k \in DOMAIN call.extra : sent[1].json.v[k] = call.extra[k]
                /\ \A k \in DOMAIN call.named : sent[1].json.v[k] = call.named[k]
                /\ "max_tokens" \notin given => sent[1].json.v["max_tokens"] = Num(DefaultMaxTokens)
                /\ "temperature" \notin given => sent[1].json.v["temperature"] = DefaultTemperature

C2_Witness ==
    /\ call.status = "rejected"
    /\ "max_tokens" \in DOMAIN call.named \cap DOMAIN call.extra
    /\ sent = <<>>

\* C3 as stated: every non-2xx response without an error.message field makes
\* create raise an error whose message contains the status code and the raw
\* body text.
C3_StatusAndBodyWheneverNoErrorMessage ==
    (Answered /\ ~Is2xx(call.outcome.status) /\ ~HasErrorMessage(call.outcome.body))
        => /\ call.status = "raised"
           /\ Contains(call.result.msg, ToString(call.outcome.status))
           /\ Contains(call.result.msg, call.outcome.body.text)

\* C3 amended: for a 4xx or 5xx response whose body is not JSON, is JSON but
\* not an object, or is an object whose error member is not an object, the
\* message is "API request failed: HTTP <status>: <body text>"; when the body
\* is a JSON object whose error member is absent or is an object without
\* message, the message is "API request failed: " and the HTTP error's own
\* text, which holds the status code, the reason and the URL, not the body.
C3_StatusAndBodyWhenBodyUnreadable ==
    (Answered /\ Is4xx5xx(call.outcome.status) /\ ~HasErrorMessage(call.outcome.body))
        => /\ call.status = "raised"
           /\ call.result.cls = "Exception"
           /\ Contains(call.result.msg, ToString(call.outcome.status))
           /\ IF ErrorMessageMissing(call.outcome.body)
              THEN /\ call.result.msg = <<"API request failed: ">>
                          \o RaiseForStatus(call.outcome.status, sent[1].url).msg
                   /\ ~Contains(call.result.msg, call.outcome.body.text)
              ELSE call.result.msg = <<"API request failed: ", "HTTP ",
                          ToString(call.outcome.status), ": ", call.outcome.body.text>>

C3_Witness ==
    /\ Answered /\ call.outcome.status = 404
    /\ call.outcome.body.json.t = "invalid"
    /\ call.outcome.body.text # ""
    /\ Contains(call.result.msg, "404")
    /\ Contains(call.result.msg, call.outcome.body.text)

\* C4: a 2xx response whose body is not valid JSON makes create raise the
\* parse-failure message "Failed to parse API response: ...".
C4_ParseFailureMessage ==
    (Answered /\ Is2xx(call.outcome.status) /\ call.outcome.body.json.t = "invalid")
        => /\ call.status = "raised"
           /\ call.result.msg[1] = "Failed to parse API response: "

\* C7: every call of create whose arguments bind issues exactly one POST, to
\* {base_url}/v1/chat/completions with the fixed timeout, whether it returns
\* or raises.
C7_ExactlyOnePost ==
    call.status \in {"returned", "raised"}
        => /\ Len(sent) = 1
           /\ sent[1].method = "POST"
           /\ sent[1].url = client.v.base_url \o <<"/v1/chat/completions">>
           /\ client.v.base_url[Len(client.v.base_url)] # "/"
           /\ sent[1].timeout = TransportTimeout

C7_Witness ==
    /\ call.status = "raised"
    /\ call.outcome.kind = "error"
    /\ call.outcome.cls = "Timeout"
    /\ Len(sent) = 1

\* C8 as stated: every non-2xx response whose body is a JSON object with an
\* error.message string m makes create raise an error whose message contains m.
C8_UpstreamMessageOnNon2xx ==
    (Answered /\ ~Is2xx(call.outcome.status) /\ HasErrorMessage(call.outcome.body)
       /\ call.outcome.body.json.v["error"].v["message"].t = "str")
        => /\ call.status = "raised"
           /\ Contains(call.result.msg, call.outcome.body.json.v["error"].v["message"].v)

\* C8 amended: every 4xx or 5xx response whose body is a JSON object with an
\* error.message string m makes create raise "API request failed: m".
C8_UpstreamMessageOn4xx5xx ==
    (Answered /\ Is4xx5xx(call.outcome.status) /\ HasErrorMessage(call.outcome.body)
       /\ call.outcome.body.json.v["error"].v["message"].t = "str")
        => /\ call.status = "raised"
           /\ call.result.cls = "Exception"
           /\ call.result.msg = <<"API request failed: ",
                                  call.outcome.body.json.v["error"].v["message"].v>>

C8_Witness ==
    /\ Answered /\ call.outcome.status = 503
    /\ HasErrorMessage(call.outcome.body)
    /\ call.result.msg = <<"API request failed: ", "rate limited">>

\* the JSON value is an object of the documented response shape: whatever
\* is present has the documented type, and anything may be absent
IsDocumentedShape(json) ==
    /\ json.t = "dict"
    /\ DOMAIN json.v \subseteq TopFields \cup {"choices"}
    /\ "choices" \in DOMAIN json.v =>
          /\ json.v["choices"].t = "list"
          /\ \A i \in 1..Len(json.v["choices"].v) :
                LET c == json.v["choices"].v[i]
                IN /\ c.t = "dict"
                   /\ DOMAIN c.v \subseteq ChoiceFields \cup {"message"}
                   /\ "message" \in DOMAIN c.v =>
                         /\ c.v["message"].t = "dict"
                         /\ DOMAIN c.v["message"].v \subseteq MessageFields

\* a Message whose fields are both unset
UnsetMessage == Obj("Message", [content |-> None, role |-> None])

\* completion holds every present field of json unchanged, None for every
\* absent scalar field, an empty list for absent choices, and absentMessage
\* for the message of a choice that has none
ParsedWithAbsent(json, completion, absentMessage) ==
    /\ completion.t = "ChatCompletion"
    /\ \A k \in TopFields : completion.v[k] = Get(json, k, None)
    /\ LET raw == Get(json, "choices", List(<<>>)).v
       IN /\ Len(completion.v.choices) = Len(raw)
          /\ \A i \in 1..Len(raw) :
                LET ch == completion.v.choices[i].v
                IN /\ ch.index = Get(raw[i], "index", None)
                   /\ ch.finish_reason = Get(raw[i], "finish_reason", None)
                   /\ IF "message" \in DOMAIN raw[i].v
                      THEN /\ ch.message.t = "Message"
                           /\ ch.message.v.role = Get(raw[i].v["message"], "role", None)
                           /\ ch.message.v.content = Get(raw[i].v["message"], "content", None)
                      ELSE ch.message = absentMessage

\* C9 as stated: a 2xx response whose body has the documented shape with any
\* fields absent makes create return a completion in which every absent
\* field, the message of a choice included, is None (choices: an empty list).
C9_AbsentFieldsAreNone ==
    (Answered /\ Is2xx(call.outcome.status) /\ IsDocumentedShape(call.outcome.body.json))
        => /\ call.status = "returned"
           /\ ParsedWithAbsent(call.outcome.body.json, call.result.value, None)

\* C9 amended: as stated, except that a choice without a message gets a
\* Message object whose role and content are None, not None itself; create
\* never raises on such a body and accepts an empty or absent choices list.
C9_AbsentFieldsAreUnset ==
    (Answered /\ Is2xx(call.outcome.status) /\ IsDocumentedShape(call.outcome.body.json))
        => /\ call.status = "returned"
           /\ ParsedWithAbsent(call.outcome.body.json, call.result.value, UnsetMessage)

C9_Witness ==
    /\ Answered /\ Is2xx(call.outcome.status)
    /\ IsDocumentedShape(call.outcome.body.json)
    /\ DOMAIN call.outcome.body.json.v = {"choices"}
    /\ Len(call.outcome.body.json.v["choices"].v) = 1
    /\ DOMAIN call.outcome.body.json.v["choices"].v[1].v = {}
    /\ call.status = "returned"
    /\ call.result.value.v.choices[1].v.message = UnsetMessage

----------------------------------------------------------------------------
(* VisionScraper *)

Bool(b) == [t |-> "bool", v |-> b]

\* a formatted string kept as the sequence of its parts
Text(parts) == [t |-> "text", v |-> parts]

ScreenshotPath == Str("screenshot.jpg")

VisionModel == Str("gpt-4-vision-preview")

\* VisionScraper.__init__
VisionScraper(env) ==
    LET c == CustomOpenAIClient(getenv(env), DefaultBaseUrl, env)
    IN IF c.tag = "raise" THEN c
       ELSE IF ~Truthy(getenv(env))
       THEN Raise("ValueError", <<"OPENAI_API_KEY not found in environment variables">>)
       ELSE Return(Obj("VisionScraper", [client |-> c.value]))

\* base64 text of the bytes an invocation's screenshot process wrote
B64(content) == [t |-> "b64", v |-> content]

\* VisionScraper.encode_image on the stored file
encode_image(stored, readable) ==
    IF stored = NoFile
    THEN Raise("FileNotFoundError", <<"Image file not found: ", ScreenshotPath.v>>)
    ELSE IF ~readable
    THEN Raise("Exception", <<"Error encoding image: ", "[Errno 13] Permission denied: 'screenshot.jpg'">>)
    ELSE Return(B64(stored))

\* a take_screenshot that leaves an existing image in place
remove_existing_skip(stored, removable) == [file |-> stored, result |-> Return(None)]

\* take_screenshot, up to the start of the process: remove an existing image
remove_existing(stored, removable) ==
    IF stored = NoFile THEN [file |-> stored, result |-> Return(None)]
    ELSE IF removable THEN [file |-> NoFile, result |-> Return(None)]
    ELSE [file |-> stored,
          result |-> Raise("PermissionError", <<"[Errno 13] Permission denied: 'screenshot.jpg'">>)]

\* how the screenshot process can end, and whether it wrote the image
ProcessOutcomes ==
    {[exit |-> e, wrote |-> w, stderr |-> IF e = "exit1" THEN "net::ERR_NAME_NOT_RESOLVED" ELSE ""] :
        e \in {"exit0", "exit1", "timeout"}, w \in BOOLEAN}
    \cup {[exit |-> "nolaunch", wrote |-> FALSE, stderr |-> ""]}

\* a take_screenshot that does not look at the exit status
run_screenshot_unchecked(proc) == Return(ScreenshotPath)

\* take_screenshot, from subprocess.run on
run_screenshot(proc) ==
    CASE proc.exit = "timeout" -> Raise("Exception", <<"Screenshot process timed out">>)
      [] proc.exit = "nolaunch" ->
            Raise("Exception", <<"Error taking screenshot: ", "[Errno 2] No such file or directory: 'node'">>)
      [] proc.exit = "exit1" ->
            Raise("Exception", <<"Error taking screenshot: ", "Screenshot script failed: ", proc.stderr>>)
      [] OTHER -> Return(ScreenshotPath)

\* the single user message analyze_screenshot builds
VisionMessages(prompt, base64_image) ==
    List(<<Dict(("role" :> Str("user")) @@ ("content" :> List(<<
        Dict(("type" :> Str("text")) @@ ("text" :> Str(prompt))),
        Dict(("type" :> Str("image_url")) @@ ("image_url" :>
            Dict(("url" :> Text(<<"data:image/jpeg;base64,", base64_image>>))
                 @@ ("detail" :> Str("high")))))>>)))>>)

\* VisionScraper.analyze_screenshot: the requests issued, the image encoded
\* (0: none) and the outcome
analyze_screenshot(self, prompt, stored, readable, outcome, lib) ==
    LET wrap(e) == Raise("Exception", <<"Error analyzing screenshot with GPT-4V: ">> \o e.msg)
        base64_image == encode_image(stored, readable)
    IN IF base64_image.tag = "raise"
       THEN [posts |-> <<>>, image |-> NoFile, result |-> wrap(base64_image)]
       ELSE LET named == ("model" :> VisionModel)
                           @@ ("messages" :> VisionMessages(prompt, base64_image.value))
                           @@ ("max_tokens" :> Num(DefaultMaxTokens))
                           @@ ("temperature" :> DefaultTemperature)
                r == create(self.v.client, named, <<>>, outcome, lib)
            IN [posts |-> r.posts,
                image |-> stored,
                result |-> IF r.result.tag = "raise" THEN wrap(r.result)
                           ELSE IF Len(r.result.value.v.choices) = 0
                           THEN wrap(Raise("IndexError", <<"list index out of range">>))
                           ELSE Return(r.result.value.v.choices[1].v.message.v.content)]

\* the success result of scrape_and_analyze
SuccessResult(url, screenshot_path, analysis) ==
    Return(Dict(("url" :> Str(url)) @@ ("screenshot_path" :> screenshot_path)
                @@ ("analysis" :> analysis) @@ ("success" :> Bool(TRUE))))

\* an except clause that catches only the class Exception itself
scrape_and_analyze_except_narrow(url, e) ==
    IF e.cls = "Exception"
    THEN Return(Dict(("url" :> Str(url)) @@ ("error" :> Text(e.msg)) @@ ("success" :> Bool(FALSE))))
    ELSE e

\* the except clause of scrape_and_analyze
scrape_and_analyze_except(url, e) ==
    Return(Dict(("url" :> Str(url)) @@ ("error" :> Text(e.msg)) @@ ("success" :> Bool(FALSE))))

----------------------------------------------------------------------------
(* State machine of the workflow *)

Urls == {"https://example.com"}

Prompts == {"describe the page"}

\* outcomes of the API exchange seen by the workflow
WorkflowOutcomes == CoreOutcomes \cup {Response(200, CompletionBody({}, TRUE, <<>>))}

\* scraper = VisionScraper()
ConstructScraper ==
    /\ scraper.t = "None"
    /\ LET r == VisionScraper(environ)
       IN /\ ctor' = [called |-> TRUE, api_key |-> getenv(environ), base_url |-> DefaultBaseUrl,
                      result |-> r]
          /\ scraper' = IF r.tag = "return" THEN r.value ELSE scraper
    /\ sent' = <<>>
    /\ UNCHANGED <<environ, requestsLib, client, call, wf, file>>

\* scrape_and_analyze(url, prompt) is called and take_screenshot removes an
\* existing image
StartScrape(url, prompt, removable) ==
    /\ scraper.t # "None"
    /\ wf.pc \in {"idle", "done"}
    /\ wf.n < MaxInvocations
    /\ LET r == remove_existing(file, removable)
       IN /\ file' = r.file
          /\ wf' = [pc |-> IF r.result.tag = "raise" THEN "done" ELSE "screenshot",
                    n |-> wf.n + 1, url |-> url, prompt |-> prompt,
                    found |-> file, shot |-> "none", image |-> NoFile, api |-> NoResponse("", ""),
                    result |-> IF r.result.tag = "raise"
                               THEN scrape_and_analyze_except(url, r.result)
                               ELSE Return(None)]
    /\ sent' = <<>>
    /\ ctor' = NoCtor
    /\ UNCHANGED <<environ, requestsLib, client, call, scraper>>

\* the screenshot process runs and ends as proc
RunScreenshot(proc) ==
    /\ wf.pc = "screenshot"
    /\ file' = IF proc.wrote THEN wf.n ELSE file
    /\ LET r == run_screenshot(proc)
       IN wf' = [wf EXCEPT !.shot = proc.exit,
                           !.pc = IF r.tag = "raise" THEN "done" ELSE "analyze",
                           !.result = IF r.tag = "raise"
                                      THEN scrape_and_analyze_except(wf.url, r)
                                      ELSE r]
    /\ UNCHANGED <<environ, requestsLib, client, ctor, call, sent, scraper>>

\* analyze_screenshot runs, the exchange ends as outcome, and
\* scrape_and_analyze returns
Analyze(readable, outcome) ==
    /\ wf.pc = "analyze"
    /\ LET a == analyze_screenshot(scraper, wf.prompt, file, readable, outcome, requestsLib)
       IN /\ sent' = a.posts
          /\ wf' = [wf EXCEPT !.pc = "done",
                              !.image = a.image,
                              !.api = IF a.posts = <<>> THEN wf.api ELSE outcome,
                              !.result = IF a.result.tag = "raise"
                                         THEN scrape_and_analyze_except(wf.url, a.result)
                                         ELSE SuccessResult(wf.url, wf.result.value, a.result.value)]
    /\ UNCHANGED <<environ, requestsLib, client, ctor, call, scraper, file>>

WorkflowNext ==
    \/ ConstructScraper
    \/ \E u \in Urls, p \in Prompts, removable \in BOOLEAN : StartScrape(u, p, removable)
    \/ \E proc \in ProcessOutcomes : RunScreenshot(proc)
    \/ \E readable \in BOOLEAN, o \in WorkflowOutcomes : Analyze(readable, o)

WorkflowSpec == Init /\ [][WorkflowNext]_vars

----------------------------------------------------------------------------
(* Properties of the workflow *)

\* the invocation has returned or raised
Finished == wf.pc = "done"

\* the result returned is the tagged failure {url, error, success: false}
IsFailureResult ==
    /\ wf.result.tag = "return"
    /\ wf.result.value.t = "dict"
    /\ DOMAIN wf.result.value.v = {"url", "error", "success"}
    /\ wf.result.value.v["url"] = Str(wf.url)
    /\ wf.result.value.v["success"] = Bool(FALSE)

\* the result returned is the tagged success {url, screenshot_path, analysis, success: true}
IsSuccessResult ==
    /\ wf.result.tag = "return"
    /\ wf.result.value.t = "dict"
    /\ DOMAIN wf.result.value.v = {"url", "screenshot_path", "analysis", "success"}
    /\ wf.result.value.v["url"] = Str(wf.url)
    /\ wf.result.value.v["screenshot_path"] = ScreenshotPath
    /\ wf.result.value.v["success"] = Bool(TRUE)

\* the screenshot process exited 0 and the image was read
ScreenshotStageSucceeded == wf.shot = "exit0" /\ wf.image # NoFile

\* the exchange gave a completion with at least one choice
ApiStageSucceeded ==
    /\ sent # <<>>
    /\ LET r == TryExchange(sent[1].url, wf.api, requestsLib)
       IN r.tag = "return" /\ Len(r.value.v.choices) > 0

\* C5: scrape_and_analyze never raises; when it has ended, its result is the
\* success result exactly when the screenshot stage and the API stage both
\* succeeded, and the failure result otherwise.
C5_AlwaysTaggedResult ==
    /\ wf.result.tag = "return"
    /\ Finished =>
          IF ScreenshotStageSucceeded /\ ApiStageSucceeded
          THEN IsSuccessResult
          ELSE IsFailureResult

C5_Witness ==
    /\ Finished
    /\ wf.found # NoFile /\ file = wf.found /\ wf.shot = "none"
    /\ IsFailureResult
    /\ Contains(wf.result.value.v["error"].v, "[Errno 13] Permission denied: 'screenshot.jpg'")

\* the image embedded in a request the workflow sent
ImageSent(request) ==
    request.json.v["messages"].v[1].v["content"].v[2].v["image_url"].v["url"].v[2]

\* C6: no image is stored at screenshot.jpg when the screenshot process is
\* started, and the image encoded and sent was written by the screenshot
\* process of the same invocation.
C6_NoStaleImage ==
    /\ wf.pc = "screenshot" => file = NoFile
    /\ wf.image # NoFile => wf.image = wf.n
    /\ \A i \in 1..Len(sent) : ImageSent(sent[i]) = B64(wf.n)

C6_Witness ==
    /\ Finished
    /\ wf.found # NoFile /\ wf.found # wf.n
    /\ wf.shot = "exit0" /\ file = NoFile /\ wf.image = NoFile
    /\ sent = <<>>
    /\ IsFailureResult

\* C10: a request is issued only after the screenshot process of the same
\* invocation exited 0 and the image was read; an invocation whose screenshot
\* stage failed or whose image is missing issues no request and returns the
\* failure result, which has no analysis.
C10_StagesOrdered ==
    /\ sent # <<>> => (Finished /\ wf.shot = "exit0" /\ wf.image = wf.n)
    /\ (Finished /\ ~ScreenshotStageSucceeded) => (sent = <<>> /\ IsFailureResult)

C10_Witness ==
    /\ Finished
    /\ wf.shot = "exit1" /\ file = wf.n
    /\ sent = <<>>
    /\ IsFailureResult

====
